---- MODULE Spec2Model ----
(***************************************************************************)
(* Model of toil_scripts/tools/preprocessing.py: the tool wrappers (stage  *)
(* in by handle, invoke one tool, stage out by handle) and the two         *)
(* pipeline functions that wire them into a parent/child job graph.        *)
(*                                                                         *)
(* The file store, the container invocation (docker_call) and the workflow *)
(* engine are collaborators: the store is a sequence of written files, an  *)
(* invocation is an entry of the event log, and the engine starts a        *)
(* declared job once every parent it was added to has finished.            *)
(***************************************************************************)
EXTENDS Integers, Sequences, FiniteSets, TLC

VARIABLES call, job, edges, store, log

vars == <<call, job, edges, store, log>>

(***************************************************************************)
(* Bounds.                                                                 *)
(***************************************************************************)
\* Largest value of the cores argument / of multiprocessing.cpu_count().
MaxCores == 2

(***************************************************************************)
(* Values passed as file arguments: a handle of the store, a promise of    *)
(* another job's return value, None, or something that is not a handle     *)
(* (an unresolved promise, a tuple, an index into a non-tuple).            *)
(***************************************************************************)
H(n) == [k |-> "handle", a |-> n, b |-> 0]

\* Job.rv(): the whole return value of job j.
Whole == -1

RV(j, i) == [k |-> "promise", a |-> j, b |-> i]

None == [k |-> "none", a |-> 0, b |-> 0]

Bad(j, i) == [k |-> "bad", a |-> j, b |-> i]

\* Python truthiness of a handle argument (if r2_id: ...).
Truthy(v) == v.k # "none"

\* Python truthiness of a string argument; Absent stands for None.
Absent == "<None>"

TruthyStr(s) == s \notin {Absent, ""}

(***************************************************************************)
(* The caller's files, already in the store when a run begins.             *)
(***************************************************************************)
Caller == -1

CallerFiles == <<"bam", "bai", "ref", "ref_dict", "fai", "phase", "mills", "dbsnp",
                 "intervals", "table", "r1", "r2">>

CallerHandle(name) == H(CHOOSE i \in 1..Len(CallerFiles) : CallerFiles[i] = name)

InitStore == [i \in 1..Len(CallerFiles) |-> [by |-> Caller, name |-> CallerFiles[i], inv |-> 0]]

(***************************************************************************)
(* Command-line tokens.  A token that names a file keeps the file name     *)
(* apart from what precedes it ('/data/', 'INPUT=', ...).                  *)
(***************************************************************************)
Lit(s) == [pre |-> s, file |-> ""]

File(pre, name) == [pre |-> pre, file |-> name]

Data(name) == File("/data/", name)

Str(n) == Lit(ToString(n))

(***************************************************************************)
(* The wrappers.  Each is the record of what one run of the function does, *)
(* in statement order: the files it stages (handle argument, local name),  *)
(* the docker_call it makes (tool, parameters, env, inputs, outputs, mock), *)
(* the local files it writes back, and the value it returns (indices into  *)
(* the handles of its writes, 0 for None).  a holds the file arguments,    *)
(* o the other arguments.                                                  *)
(***************************************************************************)
CutadaptTool == "quay.io/ucsc_cgl/cutadapt:1.9--6bd44edd2b8f8f17e25c5a268fedaab65fa851d2"

Samtools019 == "quay.io/ucsc_cgl/samtools:0.1.19--dd5ac549b95eb3e5d166a5e310417ef13651994e"

Samtools13 == "quay.io/ucsc_cgl/samtools:1.3--256539928ea162949d8a65ca5c79a72ef557ce7c"

PicardTool == "quay.io/ucsc_cgl/picardtools:1.95--dd5ac549b95eb3e5d166a5e310417ef13651994e"

GatkTool == "quay.io/ucsc_cgl/gatk:3.5--dba6dae49156168a909c43330350c6161dc7ecc2"

\* env={'JAVA_OPTS': '-Xmx{}'.format(mem)}
JavaOpts(mem) == <<"JAVA_OPTS", "-Xmx", mem>>

NoEnv == <<>>

Rd(v, name) == [v |-> v, name |-> name]

\* require(expression, message) of toil_scripts.lib: raises unless expression.
require(expression) == expression

\* Mutant: the precondition tests the forward adapter instead of the reverse one.
run_cutadapt_precondition_fwd(a, o) ==
    IF Truthy(a.r2_id) THEN require(TruthyStr(o.fwd_3pr_adapter)) ELSE TRUE

\* if r2_id: require(rev_3pr_adapter, ...)
run_cutadapt_precondition(a, o) ==
    IF Truthy(a.r2_id) THEN require(TruthyStr(o.rev_3pr_adapter)) ELSE TRUE

run_cutadapt_parameters(a, o) ==
    LET parameters == <<Lit("-a"), Lit(o.fwd_3pr_adapter), Lit("-m"), Lit("35")>>
    IN  IF Truthy(a.r1_id) /\ Truthy(a.r2_id)
        THEN parameters \o <<Lit("-A"), Lit(o.rev_3pr_adapter),
                             Lit("-o"), Data("R1_cutadapt.fastq"),
                             Lit("-p"), Data("R2_cutadapt.fastq"),
                             Data("R1.fastq"), Data("R2.fastq")>>
        ELSE parameters \o <<Lit("-o"), Data("R1.fastq"), Data("R1.fastq")>>

run_cutadapt(a, o) ==
    LET paired == Truthy(a.r1_id) /\ Truthy(a.r2_id)
    IN  [reads      |-> IF paired
                        THEN <<Rd(a.r1_id, "R1.fastq"), Rd(a.r2_id, "R2.fastq")>>
                        ELSE <<Rd(a.r1_id, "R1.fastq")>>,
         tool       |-> CutadaptTool,
         parameters |-> run_cutadapt_parameters(a, o),
         env        |-> NoEnv,
         inputs     |-> <<>>,
         outputs    |-> {},
         mock       |-> FALSE,
         writes     |-> IF paired
                        THEN <<"R1_cutadapt.fastq", "R2_cutadapt.fastq">>
                        ELSE <<"R1_cutadapt.fastq">>,
         tuple      |-> TRUE,
         ret        |-> IF paired THEN <<1, 2>> ELSE <<1, 0>>]

run_samtools_faidx(a, o) ==
    [reads      |-> <<Rd(a.ref_id, "ref.fasta")>>,
     tool       |-> Samtools019,
     parameters |-> <<Lit("faidx"), File("", "ref.fasta")>>,
     env        |-> NoEnv,
     inputs     |-> <<>>,
     outputs    |-> {"ref.fasta.fai"},
     mock       |-> o.mock,
     writes     |-> <<"ref.fasta.fai">>,
     tuple      |-> FALSE,
     ret        |-> <<1>>]

run_samtools_index(a, o) ==
    [reads      |-> <<Rd(a.bam_id, "sample.bam")>>,
     tool       |-> Samtools019,
     parameters |-> <<Lit("index"), Data("sample.bam")>>,
     env        |-> NoEnv,
     inputs     |-> <<>>,
     outputs    |-> {},
     mock       |-> FALSE,
     writes     |-> <<"sample.bam.bai">>,
     tuple      |-> FALSE,
     ret        |-> <<1>>]

samtools_view(a, o) ==
    [reads      |-> <<Rd(a.bam_id, "sample.bam")>>,
     tool       |-> Samtools13,
     parameters |-> <<Lit("view"), Lit("-b"),
                      Lit("-o"), Data("sample.output.bam"),
                      Lit("-F"), Lit(o.flag),
                      Lit("-@"), Str(o.cpu_count),
                      Data("sample.bam")>>,
     env        |-> NoEnv,
     inputs     |-> <<>>,
     outputs    |-> {"sample.output.bam"},
     mock       |-> o.mock,
     writes     |-> <<"sample.output.bam">>,
     tuple      |-> FALSE,
     ret        |-> <<1>>]

run_picard_create_sequence_dictionary(a, o) ==
    [reads      |-> <<Rd(a.ref_id, "ref.fasta")>>,
     tool       |-> PicardTool,
     parameters |-> <<Lit("CreateSequenceDictionary"), File("R=", "ref.fasta"),
                      File("O=", "ref.dict")>>,
     env        |-> JavaOpts(o.xmx),
     inputs     |-> <<>>,
     outputs    |-> {"ref.dict"},
     mock       |-> o.mock,
     writes     |-> <<"ref.dict">>,
     tuple      |-> FALSE,
     ret        |-> <<1>>]

picard_sort_sam(a, o) ==
    [reads      |-> <<Rd(a.bam_id, "sample.bam")>>,
     tool       |-> PicardTool,
     parameters |-> <<Lit("SortSam"), File("INPUT=", "sample.bam"),
                      File("OUTPUT=", "sample.sorted.bam"),
                      Lit("SORT_ORDER=coordinate"), Lit("CREATE_INDEX=true")>>,
     env        |-> JavaOpts(o.xmx),
     inputs     |-> <<>>,
     outputs    |-> {"sample.sorted.bam", "sample.sorted.bai"},
     mock       |-> o.mock,
     writes     |-> <<"sample.sorted.bam", "sample.sorted.bai">>,
     tuple      |-> TRUE,
     ret        |-> <<1, 2>>]

picard_mark_duplicates(a, o) ==
    [reads      |-> <<Rd(a.bam_id, "sample.sorted.bam"), Rd(a.bai_id, "sample.sorted.bai")>>,
     tool       |-> PicardTool,
     parameters |-> <<Lit("MarkDuplicates"), File("INPUT=", "sample.sorted.bam"),
                      File("OUTPUT=", "sample.mkdups.bam"),
                      File("METRICS_FILE=", "metrics.txt"),
                      Lit("ASSUME_SORTED=true"), Lit("CREATE_INDEX=true")>>,
     env        |-> JavaOpts(o.xmx),
     inputs     |-> <<>>,
     outputs    |-> {"sample.mkdups.bam", "sample.mkdups.bai"},
     mock       |-> o.mock,
     writes     |-> <<"sample.mkdups.bam", "sample.mkdups.bai">>,
     tuple      |-> TRUE,
     ret        |-> <<1, 2>>]

\* parameters.extend(['-U', 'ALLOW_SEQ_DICT_INCOMPATIBILITY'])
UnsafeArgs == <<Lit("-U"), Lit("ALLOW_SEQ_DICT_INCOMPATIBILITY")>>

\* zip(file_ids, inputs)
Zip(file_ids, inputs) ==
    [i \in 1..(IF Len(file_ids) < Len(inputs) THEN Len(file_ids) ELSE Len(inputs))
        |-> Rd(file_ids[i], inputs[i])]

run_realigner_target_creator_parameters(o) ==
    LET parameters == <<Lit("-T"), Lit("RealignerTargetCreator"),
                        Lit("-nt"), Str(o.cores),
                        Lit("-R"), Data("ref.fasta"),
                        Lit("-I"), Data("sample.bam"),
                        Lit("-known"), Data("phase.vcf"),
                        Lit("-known"), Data("mills.vcf"),
                        Lit("--downsampling_type"), Lit("NONE"),
                        Lit("-o"), Data("sample.intervals")>>
    IN  IF o.unsafe THEN parameters \o UnsafeArgs ELSE parameters

run_realigner_target_creator(a, o) ==
    LET file_ids == <<a.ref, a.fai, a.ref_dict, a.bam, a.bai, a.phase, a.mills>>
        inputs == <<"ref.fasta", "ref.fasta.fai", "ref.dict", "sample.bam",
                    "sample.bam.bai", "phase.vcf", "mills.vcf">>
    IN  [reads      |-> Zip(file_ids, inputs),
         tool       |-> GatkTool,
         parameters |-> run_realigner_target_creator_parameters(o),
         env        |-> JavaOpts(o.mem),
         inputs     |-> inputs,
         outputs    |-> {"sample.intervals"},
         mock       |-> o.mock,
         writes     |-> <<"sample.intervals">>,
         tuple      |-> FALSE,
         ret        |-> <<1>>]

run_indel_realignment_parameters(o) ==
    LET parameters == <<Lit("-T"), Lit("IndelRealigner"),
                        Lit("-R"), Data("ref.fasta"),
                        Lit("-I"), Data("sample.bam"),
                        Lit("-known"), Data("phase.vcf"),
                        Lit("-known"), Data("mills.vcf"),
                        Lit("-targetIntervals"), Data("sample.intervals"),
                        Lit("--downsampling_type"), Lit("NONE"),
                        Lit("-maxReads"), Str(720000),
                        Lit("-maxInMemory"), Str(5400000),
                        Lit("-o"), Data("sample.indel.bam")>>
    IN  IF o.unsafe THEN parameters \o UnsafeArgs ELSE parameters

run_indel_realignment(a, o) ==
    LET file_ids == <<a.ref, a.fai, a.ref_dict, a.intervals, a.bam, a.bai, a.phase, a.mills>>
        inputs == <<"ref.fasta", "ref.fasta.fai", "ref.dict", "sample.intervals",
                    "sample.bam", "sample.bam.bai", "phase.vcf", "mills.vcf">>
    IN  [reads      |-> Zip(file_ids, inputs),
         tool       |-> GatkTool,
         parameters |-> run_indel_realignment_parameters(o),
         env        |-> JavaOpts(o.mem),
         inputs     |-> inputs,
         outputs    |-> {"sample.indel.bam", "sample.indel.bai"},
         mock       |-> o.mock,
         writes     |-> <<"sample.indel.bam", "sample.indel.bai">>,
         tuple      |-> TRUE,
         ret        |-> <<1, 2>>]

run_base_recalibration_parameters(o) ==
    LET parameters == <<Lit("-T"), Lit("BaseRecalibrator"),
                        Lit("-nct"), Str(o.cores),
                        Lit("-R"), Data("ref.fasta"),
                        Lit("-I"), Data("sample.indel.bam"),
                        Lit("-knownSites"), Data("dbsnp.vcf"),
                        Lit("-o"), Data("sample.recal.table")>>
    IN  IF o.unsafe THEN parameters \o UnsafeArgs ELSE parameters

run_base_recalibration(a, o) ==
    LET file_ids == <<a.ref, a.fai, a.ref_dict, a.indel_bam, a.indel_bai, a.dbsnp>>
        inputs == <<"ref.fasta", "ref.fasta.fai", "ref.dict", "sample.indel.bam",
                    "sample.indel.bai", "dbsnp.vcf">>
    IN  [reads      |-> Zip(file_ids, inputs),
         tool       |-> GatkTool,
         parameters |-> run_base_recalibration_parameters(o),
         env        |-> JavaOpts(o.mem),
         inputs     |-> inputs,
         outputs    |-> {"sample.recal.table"},
         mock       |-> o.mock,
         writes     |-> <<"sample.recal.table">>,
         tuple      |-> FALSE,
         ret        |-> <<1>>]

\* Mutant: the unsafe arguments appended whatever the flag.
run_print_reads_parameters_always_unsafe(o) ==
    LET parameters == <<Lit("-T"), Lit("PrintReads"),
                        Lit("-nct"), Str(o.cores),
                        Lit("-R"), Data("ref.fasta"),
                        Lit("--emit_original_quals"),
                        Lit("-I"), Data("sample.indel.bam"),
                        Lit("-BQSR"), Data("sample.recal.table"),
                        Lit("-o"), Data("sample.bqsr.bam")>>
    IN  parameters \o UnsafeArgs

run_print_reads_parameters(o) ==
    LET parameters == <<Lit("-T"), Lit("PrintReads"),
                        Lit("-nct"), Str(o.cores),
                        Lit("-R"), Data("ref.fasta"),
                        Lit("--emit_original_quals"),
                        Lit("-I"), Data("sample.indel.bam"),
                        Lit("-BQSR"), Data("sample.recal.table"),
                        Lit("-o"), Data("sample.bqsr.bam")>>
    IN  IF o.unsafe THEN parameters \o UnsafeArgs ELSE parameters

run_print_reads(a, o) ==
    LET file_ids == <<a.ref, a.fai, a.ref_dict, a.table, a.indel_bam, a.indel_bai>>
        inputs == <<"ref.fasta", "ref.fasta.fai", "ref.dict", "sample.recal.table",
                    "sample.indel.bam", "sample.indel.bai">>
    IN  [reads      |-> Zip(file_ids, inputs),
         tool       |-> GatkTool,
         parameters |-> run_print_reads_parameters(o),
         env        |-> JavaOpts(o.mem),
         inputs     |-> inputs,
         outputs    |-> {"sample.bqsr.bam", "sample.bqsr.bai"},
         mock       |-> o.mock,
         writes     |-> <<"sample.bqsr.bam", "sample.bqsr.bai">>,
         tuple      |-> TRUE,
         ret        |-> <<1, 2>>]

GatkWrappers == {"run_realigner_target_creator", "run_indel_realignment",
                 "run_base_recalibration", "run_print_reads"}

Wrappers == {"run_cutadapt", "run_samtools_faidx", "run_samtools_index", "samtools_view",
             "run_picard_create_sequence_dictionary", "picard_sort_sam",
             "picard_mark_duplicates"} \cup GatkWrappers

Pipelines == {"run_preprocessing", "run_gatk_preprocessing"}

\* The wrapper named f, run with file arguments a and other arguments o.
Wrapper(f, a, o) ==
    CASE f = "run_cutadapt" -> run_cutadapt(a, o)
      [] f = "run_samtools_faidx" -> run_samtools_faidx(a, o)
      [] f = "run_samtools_index" -> run_samtools_index(a, o)
      [] f = "samtools_view" -> samtools_view(a, o)
      [] f = "run_picard_create_sequence_dictionary" -> run_picard_create_sequence_dictionary(a, o)
      [] f = "picard_sort_sam" -> picard_sort_sam(a, o)
      [] f = "picard_mark_duplicates" -> picard_mark_duplicates(a, o)
      [] f = "run_realigner_target_creator" -> run_realigner_target_creator(a, o)
      [] f = "run_indel_realignment" -> run_indel_realignment(a, o)
      [] f = "run_base_recalibration" -> run_base_recalibration(a, o)
      [] f = "run_print_reads" -> run_print_reads(a, o)

(***************************************************************************)
(* Jobs.  wrapJobFn declares a job: a function with its arguments, where a *)
(* file argument may be a promise.  Job 0 is the function the caller runs; *)
(* jobs 1.. are the ones a pipeline function wraps, in wrapJobFn order.    *)
(***************************************************************************)
JobIds == 0..7

\* The keyword defaults of the signatures.
Defaults(f) ==
    [cores |-> 1, unsafe |-> FALSE, mock |-> FALSE, mem |-> "10G",
     xmx |-> CASE f = "picard_sort_sam" -> "8"
               [] f = "picard_mark_duplicates" -> "8G"
               [] OTHER -> "10G",
     flag |-> "0", cpu_count |-> 1,
     fwd_3pr_adapter |-> "AGATCGGAAGAGC", rev_3pr_adapter |-> Absent]

NoJob ==
    [fn |-> "", decl |-> <<>>, a |-> <<>>, o |-> Defaults(""), status |-> "none",
     pc |-> "", k |-> 0, written |-> <<>>, tuple |-> FALSE, ret |-> <<>>, error |-> ""]

\* job.wrapJobFn(f, ...): a declared job, not yet started.
wrapJobFn(f, a, o) == [NoJob EXCEPT !.fn = f, !.decl = a, !.a = a, !.o = o, !.status = "declared"]

(***************************************************************************)
(* run_preprocessing(job, cores, bam, bai, ref, ref_dict, fai, phase,      *)
(* mills, dbsnp, mem, unsafe): the wrapped jobs, the addChild edges and    *)
(* the returned promises.                                                  *)
(***************************************************************************)
PreOpts(c) ==
    [Defaults("") EXCEPT !.cores = c.o.cores, !.mem = c.o.mem, !.unsafe = c.o.unsafe]

\* rtc = job.wrapJobFn(run_realigner_target_creator, cores, bam, bai, ref, ...)
pre_rtc(c) ==
    wrapJobFn("run_realigner_target_creator",
              [bam |-> c.a.bam, bai |-> c.a.bai, ref |-> c.a.ref, ref_dict |-> c.a.ref_dict,
               fai |-> c.a.fai, phase |-> c.a.phase, mills |-> c.a.mills], PreOpts(c))

\* ir = job.wrapJobFn(run_indel_realignment, rtc.rv(), bam, bai, ref, ...)
pre_ir(c) ==
    LET rtc == 1
    IN  wrapJobFn("run_indel_realignment",
                  [intervals |-> RV(rtc, Whole), bam |-> c.a.bam, bai |-> c.a.bai,
                   ref |-> c.a.ref, ref_dict |-> c.a.ref_dict, fai |-> c.a.fai,
                   phase |-> c.a.phase, mills |-> c.a.mills], PreOpts(c))

\* br = job.wrapJobFn(run_base_recalibration, cores, ir.rv(0), ir.rv(1), ref, ...)
pre_br(c) ==
    LET ir == 2
    IN  wrapJobFn("run_base_recalibration",
                  [indel_bam |-> RV(ir, 0), indel_bai |-> RV(ir, 1), ref |-> c.a.ref,
                   ref_dict |-> c.a.ref_dict, fai |-> c.a.fai, dbsnp |-> c.a.dbsnp],
                  PreOpts(c))

\* pr = job.wrapJobFn(run_print_reads, cores, br.rv(), ir.rv(0), ir.rv(1), ref, ...)
pre_pr(c) ==
    LET ir == 2
        br == 3
    IN  wrapJobFn("run_print_reads",
                  [table |-> RV(br, Whole), indel_bam |-> RV(ir, 0), indel_bai |-> RV(ir, 1),
                   ref |-> c.a.ref, ref_dict |-> c.a.ref_dict, fai |-> c.a.fai], PreOpts(c))

run_preprocessing_jobs(c) == <<pre_rtc(c), pre_ir(c), pre_br(c), pre_pr(c)>>

\* job.addChild(rtc); rtc.addChild(ir); ir.addChild(br); br.addChild(pr)
run_preprocessing_edges == {<<0, 1>>, <<1, 2>>, <<2, 3>>, <<3, 4>>}

\* return pr.rv(0), pr.rv(1)
run_preprocessing_return == <<RV(4, 0), RV(4, 1)>>

(***************************************************************************)
(* run_gatk_preprocessing(job, cores, bam, bai, ref, ref_dict, fai, phase, *)
(* mills, dbsnp, mem, unsafe, mock).                                       *)
(***************************************************************************)
GatkOpts(c) ==
    [Defaults("") EXCEPT !.cores = c.o.cores, !.mem = c.o.mem, !.unsafe = c.o.unsafe,
                         !.mock = c.o.mock]

\* rm_secondary = job.wrapJobFn(samtools_view, bam, flag='0x800', mock=mock)
gatk_rm_secondary(c) ==
    wrapJobFn("samtools_view", [bam_id |-> c.a.bam],
              [Defaults("samtools_view") EXCEPT !.flag = "0x800", !.mock = c.o.mock])

\* picard_sort = job.wrapJobFn(picard_sort_sam, rm_secondary.rv(), xmx=mem, mock=mock)
gatk_picard_sort(c) ==
    LET rm_secondary == 1
    IN  wrapJobFn("picard_sort_sam", [bam_id |-> RV(rm_secondary, Whole)],
                  [Defaults("picard_sort_sam") EXCEPT !.xmx = c.o.mem, !.mock = c.o.mock])

\* Mutant: picard_sort.rv(0) passed twice, the index of the sorted BAM dropped.
gatk_mdups_no_index(c) ==
    LET picard_sort == 2
    IN  wrapJobFn("picard_mark_duplicates",
                  [bam_id |-> RV(picard_sort, 0), bai_id |-> RV(picard_sort, 0)],
                  [Defaults("picard_mark_duplicates") EXCEPT !.xmx = c.o.mem,
                                                             !.mock = c.o.mock])

\* mdups = job.wrapJobFn(picard_mark_duplicates, picard_sort.rv(0), picard_sort.rv(1), ...)
gatk_mdups(c) ==
    LET picard_sort == 2
    IN  wrapJobFn("picard_mark_duplicates",
                  [bam_id |-> RV(picard_sort, 0), bai_id |-> RV(picard_sort, 1)],
                  [Defaults("picard_mark_duplicates") EXCEPT !.xmx = c.o.mem,
                                                             !.mock = c.o.mock])

\* rtc = job.wrapJobFn(run_realigner_target_creator, cores, mdups.rv(0), mdups.rv(1), ref, ...)
gatk_rtc(c) ==
    LET mdups == 3
    IN  wrapJobFn("run_realigner_target_creator",
                  [bam |-> RV(mdups, 0), bai |-> RV(mdups, 1), ref |-> c.a.ref,
                   ref_dict |-> c.a.ref_dict, fai |-> c.a.fai, phase |-> c.a.phase,
                   mills |-> c.a.mills], GatkOpts(c))

\* ir = job.wrapJobFn(run_indel_realignment, rtc.rv(), bam, bai, ref, ...)
gatk_ir(c) ==
    LET rtc == 4
    IN  wrapJobFn("run_indel_realignment",
                  [intervals |-> RV(rtc, Whole), bam |-> c.a.bam, bai |-> c.a.bai,
                   ref |-> c.a.ref, ref_dict |-> c.a.ref_dict, fai |-> c.a.fai,
                   phase |-> c.a.phase, mills |-> c.a.mills], GatkOpts(c))

\* Mutant: the caller's index passed along with the realigned BAM.
gatk_br_caller_index(c) ==
    LET ir == 5
    IN  wrapJobFn("run_base_recalibration",
                  [indel_bam |-> RV(ir, 0), indel_bai |-> c.a.bai, ref |-> c.a.ref,
                   ref_dict |-> c.a.ref_dict, fai |-> c.a.fai, dbsnp |-> c.a.dbsnp],
                  GatkOpts(c))

\* br = job.wrapJobFn(run_base_recalibration, cores, ir.rv(0), ir.rv(1), ref, ...)
gatk_br(c) ==
    LET ir == 5
    IN  wrapJobFn("run_base_recalibration",
                  [indel_bam |-> RV(ir, 0), indel_bai |-> RV(ir, 1), ref |-> c.a.ref,
                   ref_dict |-> c.a.ref_dict, fai |-> c.a.fai, dbsnp |-> c.a.dbsnp],
                  GatkOpts(c))

\* Mutant: br.rv(0) in place of br.rv(), an index into a return value that is no tuple.
gatk_pr_indexed_table(c) ==
    LET ir == 5
        br == 6
    IN  wrapJobFn("run_print_reads",
                  [table |-> RV(br, 0), indel_bam |-> RV(ir, 0), indel_bai |-> RV(ir, 1),
                   ref |-> c.a.ref, ref_dict |-> c.a.ref_dict, fai |-> c.a.fai], GatkOpts(c))

\* pr = job.wrapJobFn(run_print_reads, cores, br.rv(), ir.rv(0), ir.rv(1), ref, ...)
gatk_pr(c) ==
    LET ir == 5
        br == 6
    IN  wrapJobFn("run_print_reads",
                  [table |-> RV(br, Whole), indel_bam |-> RV(ir, 0), indel_bai |-> RV(ir, 1),
                   ref |-> c.a.ref, ref_dict |-> c.a.ref_dict, fai |-> c.a.fai], GatkOpts(c))

run_gatk_preprocessing_jobs(c) ==
    <<gatk_rm_secondary(c), gatk_picard_sort(c), gatk_mdups(c), gatk_rtc(c), gatk_ir(c),
      gatk_br(c), gatk_pr(c)>>

\* Mutant: job.addChild(ir) in place of rtc.addChild(ir).
run_gatk_preprocessing_edges_root_ir ==
    {<<0, 1>>, <<1, 2>>, <<2, 3>>, <<3, 4>>, <<0, 5>>, <<5, 6>>, <<6, 7>>}

\* job.addChild(rm_secondary); rm_secondary.addChild(picard_sort); ... br.addChild(pr)
run_gatk_preprocessing_edges ==
    {<<0, 1>>, <<1, 2>>, <<2, 3>>, <<3, 4>>, <<4, 5>>, <<5, 6>>, <<6, 7>>}

\* return pr.rv(0), pr.rv(1)
run_gatk_preprocessing_return == <<RV(7, 0), RV(7, 1)>>

Pipeline(f, c) ==
    IF f = "run_preprocessing"
    THEN [jobs |-> run_preprocessing_jobs(c), edges |-> run_preprocessing_edges,
          ret |-> run_preprocessing_return]
    ELSE [jobs |-> run_gatk_preprocessing_jobs(c), edges |-> run_gatk_preprocessing_edges,
          ret |-> run_gatk_preprocessing_return]

(***************************************************************************)
(* What the caller runs: one function of the module, with its arguments.   *)
(***************************************************************************)
CallerArgs ==
    [bam |-> CallerHandle("bam"), bai |-> CallerHandle("bai"), ref |-> CallerHandle("ref"),
     ref_dict |-> CallerHandle("ref_dict"), fai |-> CallerHandle("fai"),
     phase |-> CallerHandle("phase"), mills |-> CallerHandle("mills"),
     dbsnp |-> CallerHandle("dbsnp"), intervals |-> CallerHandle("intervals"),
     table |-> CallerHandle("table"), indel_bam |-> CallerHandle("bam"),
     indel_bai |-> CallerHandle("bai"), bam_id |-> CallerHandle("bam"),
     bai_id |-> CallerHandle("bai"), ref_id |-> CallerHandle("ref")]

Adapters == {Absent, "", "AGATCGGAAGAGC"}

Calls ==
    {[fn |-> "run_cutadapt", a |-> [r1_id |-> r1, r2_id |-> r2],
      o |-> [Defaults("run_cutadapt") EXCEPT !.rev_3pr_adapter = rev]] :
        r1 \in {CallerHandle("r1"), None}, r2 \in {CallerHandle("r2"), None}, rev \in Adapters}
    \cup {[fn |-> "run_samtools_index", a |-> CallerArgs, o |-> Defaults("run_samtools_index")]}
    \cup {[fn |-> f, a |-> CallerArgs, o |-> [Defaults(f) EXCEPT !.mock = m]] :
            f \in {"run_samtools_faidx", "samtools_view", "run_picard_create_sequence_dictionary",
                   "picard_sort_sam", "picard_mark_duplicates"}, m \in BOOLEAN}
    \cup {[fn |-> f, a |-> CallerArgs,
           o |-> [Defaults(f) EXCEPT !.cores = n, !.unsafe = u, !.mock = m]] :
            f \in GatkWrappers \cup {"run_gatk_preprocessing"},
            n \in 1..MaxCores, u \in BOOLEAN, m \in BOOLEAN}
    \cup {[fn |-> "run_preprocessing", a |-> CallerArgs,
           o |-> [Defaults("run_preprocessing") EXCEPT !.cores = n, !.unsafe = u]] :
            n \in 1..MaxCores, u \in BOOLEAN}

Init ==
    /\ call \in Calls
    /\ job = [j \in JobIds |-> IF j = 0 THEN wrapJobFn(call.fn, call.a, call.o) ELSE NoJob]
    /\ edges = {}
    /\ store = InitStore
    /\ log = <<>>

(***************************************************************************)
(* The engine: a declared job starts once every job it was added to as a   *)
(* child has finished (the caller's job starts at once); a promise among   *)
(* its arguments is replaced by the promised value when it starts.         *)
(***************************************************************************)
Parents(j) == {p \in JobIds : <<p, j>> \in edges}

Resolve(v) ==
    IF v.k # "promise" THEN v
    ELSE LET p == job[v.a]
         IN  IF p.status # "done" THEN Bad(v.a, v.b)
             ELSE IF v.b = Whole THEN (IF p.tuple THEN Bad(v.a, v.b) ELSE p.ret[1])
             ELSE IF p.tuple /\ (v.b + 1) \in DOMAIN p.ret THEN p.ret[v.b + 1]
             ELSE Bad(v.a, v.b)

\* The statement a function begins with.
FirstPc(f) ==
    CASE f \in Pipelines -> "wire"
      [] f = "run_cutadapt" -> "require"
      [] OTHER -> "read"

\* multiprocessing.cpu_count() on the worker that runs the job.
CpuCounts(f) == IF f = "samtools_view" THEN 1..MaxCores ELSE {1}

Start(j) ==
    /\ job[j].status = "declared"
    /\ j = 0 \/ (Parents(j) # {} /\ \A p \in Parents(j) : job[p].status = "done")
    /\ \E n \in CpuCounts(job[j].fn) :
        job' = [job EXCEPT ![j].status = "running",
                           ![j].a = [x \in DOMAIN job[j].a |-> Resolve(job[j].a[x])],
                           ![j].o.cpu_count = n,
                           ![j].pc = FirstPc(job[j].fn),
                           ![j].k = 1]
    /\ UNCHANGED <<call, edges, store, log>>

(***************************************************************************)
(* A pipeline function: wraps its jobs, adds the child edges and returns   *)
(* the promises of the last job.                                           *)
(***************************************************************************)
Wire(j) ==
    /\ job[j].status = "running"
    /\ job[j].pc = "wire"
    /\ LET p == Pipeline(job[j].fn, job[j])
       IN  /\ job' = [i \in JobIds |->
                        IF i = j
                        THEN [job[j] EXCEPT !.status = "done", !.pc = "", !.tuple = TRUE,
                                            !.ret = p.ret]
                        ELSE IF i \in DOMAIN p.jobs THEN p.jobs[i] ELSE job[i]]
           /\ edges' = edges \cup p.edges
    /\ UNCHANGED <<call, store, log>>

(***************************************************************************)
(* One run of a wrapper, a statement at a time.  The file store and the    *)
(* container invocation may fail; no wrapper catches an exception, so a    *)
(* failure ends the run with that exception.                               *)
(***************************************************************************)
W(j) == Wrapper(job[j].fn, job[j].a, job[j].o)

\* Mutant: the first output is written back before the tool is invoked.
StepAfter_write_first(w, pc, k) ==
    CASE pc = "require" -> [pc |-> "read", k |-> 1]
      [] pc = "read" -> IF k < Len(w.reads) THEN [pc |-> "read", k |-> k + 1]
                        ELSE [pc |-> "write", k |-> 1]
      [] pc = "write" -> IF k < Len(w.writes) THEN [pc |-> "write", k |-> k + 1]
                         ELSE [pc |-> "invoke", k |-> 1]
      [] pc = "invoke" -> [pc |-> "return", k |-> 1]

\* The position after the statement at (pc, k) of wrapper w has succeeded.
StepAfter(w, pc, k) ==
    CASE pc = "require" -> [pc |-> "read", k |-> 1]
      [] pc = "read" -> IF k < Len(w.reads) THEN [pc |-> "read", k |-> k + 1]
                        ELSE [pc |-> "invoke", k |-> 1]
      [] pc = "invoke" -> [pc |-> "write", k |-> 1]
      [] pc = "write" -> IF k < Len(w.writes) THEN [pc |-> "write", k |-> k + 1]
                         ELSE [pc |-> "return", k |-> 1]

Advance(jr, w) ==
    LET n == StepAfter(w, jr.pc, jr.k) IN [jr EXCEPT !.pc = n.pc, !.k = n.k]

\* Mutant: the exception is caught and the wrapper goes on to write its outputs.
Raise_swallowed(jr, err) == [jr EXCEPT !.pc = "write", !.k = 1]

\* An exception leaves the function: nothing after the failing statement runs.
Raise(jr, err) == [jr EXCEPT !.status = "failed", !.error = err, !.pc = "", !.k = 0]

At(j, pc) == job[j].status = "running" /\ job[j].fn \in Wrappers /\ job[j].pc = pc

Require(j) ==
    /\ At(j, "require")
    /\ job' = [job EXCEPT ![j] = IF run_cutadapt_precondition(job[j].a, job[j].o)
                                 THEN Advance(job[j], W(j))
                                 ELSE Raise(job[j], "UserError")]
    /\ UNCHANGED <<call, edges, store, log>>

\* readGlobalFile succeeds only on a handle of the store.
IsHandle(v) == v.k = "handle" /\ v.a \in DOMAIN store

ReadOutcomes(v) == IF IsHandle(v) THEN {TRUE, FALSE} ELSE {FALSE}

\* job.fileStore.readGlobalFile(file_store_id, os.path.join(work_dir, name))
Read(j) ==
    /\ At(j, "read")
    /\ LET r == W(j).reads[job[j].k]
       IN  \E ok \in ReadOutcomes(r.v) :
            /\ log' = Append(log, [j |-> j, kind |-> "read", v |-> r.v, name |-> r.name,
                                   ok |-> ok])
            /\ job' = [job EXCEPT ![j] = IF ok THEN Advance(job[j], W(j))
                                         ELSE Raise(job[j], "ReadError")]
    /\ UNCHANGED <<call, edges, store>>

\* docker_call(tool=..., work_dir=work_dir, parameters=..., env=..., inputs=..., outputs=..., mock=...)
docker_call(j, w, ok) ==
    [j |-> j, kind |-> "invoke", tool |-> w.tool, parameters |-> w.parameters, env |-> w.env,
     inputs |-> w.inputs, outputs |-> w.outputs, mock |-> w.mock, ok |-> ok]

Invoke(j) ==
    /\ At(j, "invoke")
    /\ \E ok \in BOOLEAN :
        /\ log' = Append(log, docker_call(j, W(j), ok))
        /\ job' = [job EXCEPT ![j] = IF ok THEN Advance(job[j], W(j))
                                     ELSE Raise(job[j], "CalledProcessError")]
    /\ UNCHANGED <<call, edges, store>>

\* The completed invocation of job j (its place in the log), 0 if there is none.
InvocationOf(j) ==
    LET S == {i \in DOMAIN log : log[i].j = j /\ log[i].kind = "invoke" /\ log[i].ok}
    IN  IF S = {} THEN 0 ELSE CHOOSE i \in S : \A i2 \in S : i2 <= i

\* job.fileStore.writeGlobalFile(os.path.join(work_dir, name))
Write(j) ==
    /\ At(j, "write")
    /\ LET name == W(j).writes[job[j].k]
           h == H(Len(store) + 1)
       IN  \E ok \in BOOLEAN :
            /\ log' = Append(log, [j |-> j, kind |-> "write", v |-> IF ok THEN h ELSE None,
                                   name |-> name, ok |-> ok])
            /\ store' = IF ok
                        THEN Append(store, [by |-> j, name |-> name, inv |-> InvocationOf(j)])
                        ELSE store
            /\ job' = [job EXCEPT ![j] =
                         IF ok THEN Advance([job[j] EXCEPT !.written = Append(@, h)], W(j))
                         ELSE Raise(job[j], "WriteError")]
    /\ UNCHANGED <<call, edges>>

\* return ...
Return(j) ==
    /\ At(j, "return")
    /\ LET w == W(j)
           wr == job[j].written
           val(i) == IF i = 0 THEN None ELSE IF i \in DOMAIN wr THEN wr[i] ELSE Bad(j, i)
       IN  job' = [job EXCEPT ![j].status = "done", ![j].pc = "", ![j].k = 0,
                              ![j].tuple = w.tuple,
                              ![j].ret = [i \in DOMAIN w.ret |-> val(w.ret[i])]]
    /\ UNCHANGED <<call, edges, store, log>>

Next ==
    \E j \in JobIds :
        \/ Start(j)
        \/ Wire(j)
        \/ Require(j)
        \/ Read(j)
        \/ Invoke(j)
        \/ Write(j)
        \/ Return(j)

Spec == Init /\ [][Next]_vars

(***************************************************************************)
(* Properties.                                                             *)
(***************************************************************************)
Events(j, kind) == {i \in DOMAIN log : log[i].j = j /\ log[i].kind = kind}

Started(j) == job[j].status \in {"running", "done", "failed"}

PipelineWired == call.fn \in Pipelines /\ job[0].status = "done"

\* The caller runs run_cutadapt with a read-2 handle and no reverse adapter.
C1_Case ==
    /\ call.fn = "run_cutadapt"
    /\ Truthy(call.a.r2_id)
    /\ call.o.rev_3pr_adapter \in {Absent, ""}

\* C1: run_cutadapt called with r2_id present and rev_3pr_adapter empty or
\* absent never gets past the precondition: the only way it ends is the
\* configuration error, and no file-store read, tool invocation or file-store
\* write happens (the log stays empty and the store is the caller's store).
C1_PairedWithoutReverseAdapterFailsFirst ==
    C1_Case =>
        /\ log = <<>>
        /\ store = InitStore
        /\ job[0].status \in {"declared", "running", "failed"}
        /\ job[0].status = "running" => job[0].pc = "require"
        /\ job[0].status = "failed" => job[0].error = "UserError"

C1_Witness ==
    /\ C1_Case
    /\ Truthy(call.a.r1_id)
    /\ job[0].status = "failed"
    /\ job[0].error = "UserError"

\* The documented order of the stages of a pipeline function.
Chain(f) ==
    IF f = "run_gatk_preprocessing"
    THEN <<"samtools_view", "picard_sort_sam", "picard_mark_duplicates",
           "run_realigner_target_creator", "run_indel_realignment",
           "run_base_recalibration", "run_print_reads">>
    ELSE <<"run_realigner_target_creator", "run_indel_realignment",
           "run_base_recalibration", "run_print_reads">>

\* C2: once a pipeline function has returned, the declared graph is exactly
\* the linear chain root -> stage 1 -> ... -> stage n in the documented order;
\* a stage has started only if the stage before it has finished, at most one
\* stage is running at any time, and the events of the stages appear in the
\* log in chain order.
C2_LinearChainOneStageAtATime ==
    /\ (call.fn \in Pipelines /\ job[0].status # "done") => edges = {}
    /\ PipelineWired =>
        LET ch == Chain(call.fn)
        IN  /\ edges = {<<i - 1, i>> : i \in 1..Len(ch)}
            /\ \A i \in 1..Len(ch) : job[i].fn = ch[i]
            /\ \A i \in JobIds : i > Len(ch) => job[i].status = "none"
            /\ \A i \in 2..Len(ch) : Started(i) => job[i - 1].status = "done"
            /\ Cardinality({j \in JobIds : job[j].status = "running"}) <= 1
            /\ \A x, y \in DOMAIN log : x < y => log[x].j <= log[y].j

C2_Witness ==
    /\ call.fn = "run_gatk_preprocessing"
    /\ job[7].status = "done"
    /\ \A j \in 1..7 : Events(j, "invoke") # {}

\* The promises that stand for the outputs of declared job p.
Outputs(p) ==
    LET w == Wrapper(job[p].fn, job[p].decl, job[p].o)
    IN  IF w.tuple THEN {RV(p, i - 1) : i \in DOMAIN w.ret} ELSE {RV(p, Whole)}

PastReads(j) ==
    \/ job[j].status = "done"
    \/ job[j].status = "running" /\ job[j].pc \in {"invoke", "write", "return"}

\* C3: in both pipelines, for every two consecutive stages p -> c, every
\* output of p is an argument of c, and once c has staged its inputs it has
\* read every handle p returned.
C3_OutputsThreadedToNextStage ==
    PipelineWired =>
        \A e \in edges :
            LET p == e[1]
                c == e[2]
            IN  p # 0 =>
                /\ Outputs(p) \subseteq {job[c].decl[x] : x \in DOMAIN job[c].decl}
                /\ PastReads(c) =>
                    \A i \in DOMAIN job[p].ret :
                        \E r \in Events(c, "read") : log[r].ok /\ log[r].v = job[p].ret[i]

C3_Witness ==
    /\ call.fn = "run_gatk_preprocessing"
    /\ job[3].status = "running"
    /\ job[3].pc = "invoke"
    /\ Len(job[2].ret) = 2
    /\ \E r \in Events(3, "read") : log[r].v = job[2].ret[2]

\* C4: in a run of either pipeline, every value a stage passes to
\* readGlobalFile is a handle of the store that is the caller's or was written
\* by a stage that has finished (and by an earlier entry of the log); no
\* unresolved promise and no non-handle is ever read.
C4_ReadsOnlyWrittenHandles ==
    call.fn \in Pipelines =>
        \A r \in DOMAIN log :
            log[r].kind = "read" =>
                /\ log[r].v.k = "handle"
                /\ log[r].v.a \in DOMAIN store
                /\ LET f == store[log[r].v.a]
                   IN  \/ f.by = Caller
                       \/ /\ job[f.by].status = "done"
                          /\ \E w \in Events(f.by, "write") : w < r /\ log[w].v = log[r].v

C4_Witness ==
    /\ call.fn = "run_gatk_preprocessing"
    /\ \E r \in Events(7, "read") :
        /\ log[r].ok
        /\ log[r].name = "sample.recal.table"
        /\ store[log[r].v.a].by = 6

\* The stages that stage both an alignment file and its index, with the
\* arguments that carry them.
BamArg(f) ==
    CASE f = "picard_mark_duplicates" -> "bam_id"
      [] f \in {"run_realigner_target_creator", "run_indel_realignment"} -> "bam"
      [] OTHER -> "indel_bam"

BaiArg(f) ==
    CASE f = "picard_mark_duplicates" -> "bai_id"
      [] f \in {"run_realigner_target_creator", "run_indel_realignment"} -> "bai"
      [] OTHER -> "indel_bai"

PairStages == {"picard_mark_duplicates"} \cup GatkWrappers

\* The file names of an alignment file and of the index written with it.
PairNames ==
    {<<"sample.sorted.bam", "sample.sorted.bai">>, <<"sample.mkdups.bam", "sample.mkdups.bai">>,
     <<"sample.indel.bam", "sample.indel.bai">>, <<"sample.bqsr.bam", "sample.bqsr.bai">>}

\* Handles b and i are an alignment file and the index of that same file.
Paired(b, i) ==
    /\ IsHandle(b)
    /\ IsHandle(i)
    /\ LET fb == store[b.a]
           fi == store[i.a]
       IN  \/ fb.by = Caller /\ fi.by = Caller /\ fb.name = "bam" /\ fi.name = "bai"
           \/ /\ fb.by # Caller
              /\ fb.by = fi.by
              /\ fb.inv # 0
              /\ fb.inv = fi.inv
              /\ <<fb.name, fi.name>> \in PairNames

\* C5: in both pipelines every started stage that stages an alignment file
\* and an index is given a matching pair (the caller's pair, or the two
\* outputs of one invocation of one upstream stage), and every finished
\* wrapper that returns a (bam, index) pair returns the two files written
\* from its own single invocation.
C5_PairingConsistency ==
    /\ call.fn \in Pipelines =>
        \A j \in JobIds :
            (j # 0 /\ Started(j) /\ job[j].fn \in PairStages) =>
                /\ Paired(job[j].a[BamArg(job[j].fn)], job[j].a[BaiArg(job[j].fn)])
                /\ store[job[j].a[BamArg(job[j].fn)].a].by < j
    /\ \A j \in JobIds :
        (job[j].status = "done"
            /\ job[j].fn \in {"picard_sort_sam", "picard_mark_duplicates",
                              "run_indel_realignment", "run_print_reads"}) =>
            /\ Len(job[j].ret) = 2
            /\ Paired(job[j].ret[1], job[j].ret[2])
            /\ store[job[j].ret[1].a].by = j
            /\ store[job[j].ret[1].a].inv = InvocationOf(j)

C5_Witness ==
    /\ call.fn = "run_gatk_preprocessing"
    /\ Started(6)
    /\ IsHandle(job[6].a.indel_bam)
    /\ store[job[6].a.indel_bam.a].by = 5
    /\ store[job[6].a.indel_bai.a].by = 5

\* C6: every command line a GATK wrapper invokes with unsafe=True is the
\* command line the same wrapper builds with unsafe=False and the same other
\* arguments, followed by '-U', 'ALLOW_SEQ_DICT_INCOMPATIBILITY'; every one it
\* invokes with unsafe=False has no '-U' argument.
C6_UnsafeAppendsArgumentPair ==
    \A j \in JobIds :
        job[j].fn \in GatkWrappers =>
            \A i \in Events(j, "invoke") :
                LET safe == Wrapper(job[j].fn, job[j].a,
                                    [job[j].o EXCEPT !.unsafe = FALSE]).parameters
                IN  IF job[j].o.unsafe
                    THEN log[i].parameters =
                            safe \o <<Lit("-U"), Lit("ALLOW_SEQ_DICT_INCOMPATIBILITY")>>
                    ELSE /\ log[i].parameters = safe
                         /\ \A t \in DOMAIN log[i].parameters :
                                log[i].parameters[t].pre # "-U"

C6_Witness ==
    /\ \E i \in Events(0, "invoke") :
        /\ job[0].fn = "run_print_reads"
        /\ job[0].o.unsafe
        /\ log[i].parameters[Len(log[i].parameters) - 1] = Lit("-U")

\* The file names a command line names as outputs: what follows '-o' or
\* '-p', and the value of OUTPUT=, O= or METRICS_FILE=.
CmdOutputs(cmd) ==
    {cmd[i].file : i \in {x \in DOMAIN cmd :
        /\ cmd[x].file # ""
        /\ \/ cmd[x].pre \in {"OUTPUT=", "O=", "METRICS_FILE="}
           \/ x > 1 /\ cmd[x - 1] \in {Lit("-o"), Lit("-p")}}}

\* The file names a command line names as inputs: every other file it names.
CmdInputs(cmd) ==
    {cmd[i].file : i \in {x \in DOMAIN cmd :
        /\ cmd[x].file # ""
        /\ cmd[x].pre \notin {"OUTPUT=", "O=", "METRICS_FILE="}
        /\ ~(x > 1 /\ cmd[x - 1] \in {Lit("-o"), Lit("-p")})}}

\* The names job j had staged before entry i of the log.
StagedBefore(j, i) == {log[r].name : r \in {x \in Events(j, "read") : x < i /\ log[x].ok}}

\* C7 (as claimed): for every wrapper, the file names written back after the
\* invocation are exactly the declared outputs of the invocation, and every
\* input file the command line names was staged under that name before.
C7_WritesAreDeclaredOutputs ==
    \A j \in JobIds :
        job[j].fn \in Wrappers =>
            /\ \A i \in Events(j, "invoke") : CmdInputs(log[i].parameters) \subseteq StagedBefore(j, i)
            /\ job[j].status = "done" =>
                \A i \in Events(j, "invoke") :
                    {log[w].name : w \in Events(j, "write")} = log[i].outputs

\* C8: within one run of a wrapper every read precedes the invocation and
\* every write follows a completed invocation; the tool is invoked at most
\* once, and only after all the wrapper's reads; a wrapper that has returned
\* invoked the tool exactly once, to completion, and wrote all its outputs
\* after it.
C8_ReadsThenOneInvocationThenWrites ==
    \A j \in JobIds :
        job[j].fn \in Wrappers =>
            /\ Cardinality(Events(j, "invoke")) <= 1
            /\ \A r \in Events(j, "read"), i \in Events(j, "invoke") : r < i
            /\ \A i \in Events(j, "invoke") :
                Cardinality({r \in Events(j, "read") : log[r].ok}) = Len(W(j).reads)
            /\ \A w \in Events(j, "write") :
                \E i \in Events(j, "invoke") : i < w /\ log[i].ok
            /\ job[j].status = "done" =>
                /\ \E i \in Events(j, "invoke") : log[i].ok
                /\ Cardinality({w \in Events(j, "write") : log[w].ok}) = Len(W(j).writes)
                /\ \A x \in DOMAIN job[j].ret :
                    job[j].ret[x] # None =>
                        \E w \in Events(j, "write") : log[w].ok /\ log[w].v = job[j].ret[x]

C8_Witness ==
    /\ call.fn = "picard_sort_sam"
    /\ job[0].status = "done"
    /\ Len(log) = 4
    /\ log[2].kind = "invoke"

\* C9: a failed read or a failed invocation is the last thing its wrapper
\* run does: the run has ended with that failure, it invoked the tool at most
\* once (never after a failed read), wrote nothing, returned nothing, and the
\* store holds no file of that run.
C9_FailurePropagates ==
    \A i \in DOMAIN log :
        (log[i].kind \in {"read", "invoke"} /\ ~log[i].ok) =>
            LET j == log[i].j
            IN  /\ \A x \in DOMAIN log : log[x].j = j => x <= i
                /\ job[j].status = "failed"
                /\ job[j].error = (IF log[i].kind = "read" THEN "ReadError"
                                   ELSE "CalledProcessError")
                /\ Cardinality(Events(j, "invoke")) = (IF log[i].kind = "read" THEN 0 ELSE 1)
                /\ Events(j, "write") = {}
                /\ job[j].ret = <<>>
                /\ \A h \in DOMAIN store : store[h].by # j

C9_Witness ==
    /\ call.fn = "run_gatk_preprocessing"
    /\ job[6].status = "failed"
    /\ job[6].error = "CalledProcessError"
    /\ job[7].status = "declared"
    /\ \E i \in Events(6, "invoke") : ~log[i].ok

\* The nearest stage before stage j of run_gatk_preprocessing that outputs an
\* alignment file.
NearestBamStage(j) ==
    CHOOSE p \in 1..(j - 1) :
        /\ job[p].fn \in {"samtools_view", "picard_sort_sam", "picard_mark_duplicates",
                          "run_indel_realignment"}
        /\ \A q \in (p + 1)..(j - 1) : job[q].fn \notin {"samtools_view", "picard_sort_sam",
                                            "picard_mark_duplicates", "run_indel_realignment"}

\* C10 (as claimed): in run_gatk_preprocessing only the first stage reads the
\* caller's bam and bai; every later stage reads the alignment file (and
\* index) written by the nearest preceding stage that outputs one.
C10_OnlyFirstStageReadsCallerBam ==
    call.fn = "run_gatk_preprocessing" =>
        \A r \in DOMAIN log :
            (log[r].kind = "read" /\ log[r].j > 1) =>
                /\ log[r].v \notin {CallerHandle("bam"), CallerHandle("bai")}
                /\ (IsHandle(log[r].v) /\ store[log[r].v.a].name \in
                        {"sample.output.bam", "sample.sorted.bam", "sample.sorted.bai",
                         "sample.mkdups.bam", "sample.mkdups.bai", "sample.indel.bam",
                         "sample.indel.bai"}) =>
                    store[log[r].v.a].by = NearestBamStage(log[r].j)

\* The run of run_cutadapt is paired-end (both handles given) or single-end.
CutadaptPaired(j) == Truthy(job[j].a.r1_id) /\ Truthy(job[j].a.r2_id)

\* C11 (as claimed): in single-end and in paired-end mode of run_cutadapt,
\* every file written back after the invocation is a file the invoked command
\* line names as an output ('-o' or '-p'), no file staged as an input is named
\* as an output of that command, and the returned value is (R1 handle, None)
\* in single-end mode and two handles in paired-end mode.
C11_CutadaptWritesCommandOutputs ==
    \A j \in JobIds :
        job[j].fn = "run_cutadapt" =>
            \A i \in Events(j, "invoke") :
                /\ \A w \in Events(j, "write") :
                    log[w].name \in CmdOutputs(log[i].parameters)
                /\ StagedBefore(j, i) \cap CmdOutputs(log[i].parameters) = {}
                /\ job[j].status = "done" =>
                    /\ Len(job[j].ret) = 2
                    /\ IsHandle(job[j].ret[1])
                    /\ IF CutadaptPaired(j) THEN IsHandle(job[j].ret[2])
                       ELSE job[j].ret[2] = None

====
